---- MODULE Spec2Model ----
(***************************************************************************)
(* Model of streamlit_app.py: the sqlite-backed waste inventory (table     *)
(* waste) and its audit log (table audit), and the three mutating handlers *)
(* insert_entry, delete_entry and reset_inventory.                         *)
(*                                                                         *)
(* Two granularities of the same statements are given.  Spec runs each     *)
(* handler as one step (one writer at a time, calls run to completion).    *)
(* SpecCrash runs each handler statement by statement on a connection,     *)
(* with sqlite's transaction semantics (an uncommitted transaction is      *)
(* invisible to the file and is rolled back when the process dies), and    *)
(* lets the process die between any two statements.                        *)
(*                                                                         *)
(* The audit column ts (wall-clock text) is not modelled.                  *)
(***************************************************************************)
EXTENDS Integers, Sequences, FiniteSets, TLC

\* ---------------------------------------------------------------- bounds
\* Largest waste id handed out in a run: insert_entry is not called once
\* sqlite_sequence for waste has reached it.
MaxEntries == 2

\* ------------------------------------------------------ configuration
BUSINESSES == {"DAB", "CTI"}
STREAMS == {"ACN", "DCM"}

\* date.isoformat() text, one character per element, so that prefix
\* matching (LIKE 'YYYY-MM%') is computed on the text.
D_2024_01_05 == <<"2","0","2","4","-","0","1","-","0","5">>
D_2024_01_20 == <<"2","0","2","4","-","0","1","-","2","0">>
Dates == {D_2024_01_05, D_2024_01_20}
Quantities == {0, 300}

\* The business/stream selections used as inputs.  The handlers store and
\* copy the two labels without looking at them, so two selections that
\* differ in both labels stand for the four.
Labels == {l \in BUSINESSES \X STREAMS :
             l \in {<<"DAB", "ACN">>, <<"CTI", "DCM">>}}

\* Argument tuples of insert_entry(entry_date, business, stream, quantity).
Args == {[entry_date |-> d, business |-> l[1], stream |-> l[2],
          quantity |-> q] : d \in Dates, l \in Labels, q \in Quantities}

\* Ids a caller may pass to delete_entry (present, deleted, never assigned).
EntryIds == 1..(MaxEntries + 1)

\* The two entries of the specification's scenario, as far as Args has
\* them: the arguments used when handlers run statement by statement.
ScenarioArgs ==
  {[entry_date |-> D_2024_01_05, business |-> "DAB", stream |-> "ACN",
    quantity |-> 300],
   [entry_date |-> D_2024_01_20, business |-> "CTI", stream |-> "DCM",
    quantity |-> 0]}

Sessions == {"A", "B"}

\* db: the database file; call: the handler call made by the last step;
\* txn, pc, local: connections and handlers in progress (SpecCrash);
\* ui: per browser session, st.session_state, the buttons on the page as
\* last rendered and the button whose click started the last script run.
VARIABLES db, call, txn, pc, local, ui

vars == <<db, call, txn, pc, local, ui>>

\* ------------------------------------------------------------- helpers
Max(a, b) == IF a >= b THEN a ELSE b

RECURSIVE MaxId(_)
MaxId(rows) ==
  IF rows = {} THEN 0
  ELSE LET r == CHOOSE x \in rows : TRUE
       IN Max(r.id, MaxId(rows \ {r}))

\* The value columns of a waste row or of an audit row.
Values(date, business, stream, quantity) ==
  [entry_date |-> date, business |-> business, stream |-> stream,
   quantity |-> quantity]

WasteValues(r) == Values(r.date, r.business, r.stream, r.quantity)
AuditValues(a) == Values(a.entry_date, a.business, a.stream, a.quantity)

\* ------------------------------------------------------ sql statements
\* Each statement is a function from a database image to a database image.
\* A database image is [waste, audit, seq]: the two tables and the
\* sqlite_sequence table that AUTOINCREMENT keeps (largest rowid ever used).

EmptyDb == [waste |-> {}, audit |-> {}, seq |-> [waste |-> 0, audit |-> 0]]

\* Variant: id INTEGER PRIMARY KEY without AUTOINCREMENT (largest rowid now
\* in the table, plus one).
AutoIncrement_rowid(rows, seq) == MaxId(rows) + 1

\* id INTEGER PRIMARY KEY AUTOINCREMENT: one more than the largest rowid
\* that has ever existed in the table.
AutoIncrement(rows, seq) == Max(seq, MaxId(rows)) + 1

\* INSERT INTO waste (date, business, stream, quantity) VALUES (?, ?, ?, ?)
InsertWaste(d, a) ==
  LET id == AutoIncrement(d.waste, d.seq.waste)
  IN [d EXCEPT !.waste = @ \cup {[id |-> id, date |-> a.entry_date,
                                  business |-> a.business,
                                  stream |-> a.stream,
                                  quantity |-> a.quantity]},
               !.seq.waste = id]

\* INSERT INTO audit (event, entry_date, business, stream, quantity, ts)
InsertAudit(d, event, v) ==
  LET id == AutoIncrement(d.audit, d.seq.audit)
  IN [d EXCEPT !.audit = @ \cup {[id |-> id, event |-> event,
                                  entry_date |-> v.entry_date,
                                  business |-> v.business,
                                  stream |-> v.stream,
                                  quantity |-> v.quantity]},
               !.seq.audit = id]

\* SELECT date, business, stream, quantity FROM waste WHERE id = ?
\* followed by fetchone(): the set holding the row, or {} for None.
SelectWasteById(d, entry_id) == {r \in d.waste : r.id = entry_id}

\* Variant: the WHERE clause is missing.
DeleteWasteById_nowhere(d, entry_id) == [d EXCEPT !.waste = {}]

\* DELETE FROM waste WHERE id = ?
DeleteWasteById(d, entry_id) ==
  [d EXCEPT !.waste = {r \in @ : r.id # entry_id}]

\* SELECT date, business, stream, quantity FROM waste, fetchall(): the rows
\* in rowid order, as a sequence of value tuples.
RECURSIVE SelectAllWaste(_)
SelectAllWaste(rows) ==
  IF rows = {} THEN <<>>
  ELSE LET r == CHOOSE x \in rows : \A y \in rows : x.id <= y.id
       IN <<WasteValues(r)>> \o SelectAllWaste(rows \ {r})

\* Variant: the reset also clears the audit table.
DeleteAllWaste_audit(d) == [d EXCEPT !.waste = {}, !.audit = {}]

\* DELETE FROM waste
DeleteAllWaste(d) == [d EXCEPT !.waste = {}]

\* Variant: one aggregate reset record instead of one per row.
InsertResetRows_aggregate(d, rows) ==
  IF rows = <<>> THEN d ELSE InsertAudit(d, "reset", Head(rows))

\* for r in rows: INSERT INTO audit ... ("reset", r[0], r[1], r[2], r[3], ts)
RECURSIVE InsertResetRows(_, _)
InsertResetRows(d, rows) ==
  IF rows = <<>> THEN d
  ELSE InsertResetRows(InsertAudit(d, "reset", Head(rows)), Tail(rows))

\* strftime("%Y-%m") of a date
YearMonth(date) == SubSeq(date, 1, 7)

\* WHERE date LIKE 'year_month%': the rows get_monthly_entries returns.
MonthlyRows(d, year_month) ==
  {r \in d.waste : SubSeq(r.date, 1, Len(year_month)) = year_month}

\* ------------------------------------------------- handlers, as a whole
\* Variant: the audit insert is missing.
insert_entry_db_noaudit(d, a) == InsertWaste(d, a)

\* Variant: the audit row is tagged 'add'.
insert_entry_db_add(d, a) == InsertAudit(InsertWaste(d, a), "add", a)

insert_entry_db(d, a) == InsertAudit(InsertWaste(d, a), "insert", a)

delete_entry_db(d, entry_id) ==
  LET row == SelectWasteById(d, entry_id)
  IN IF row # {}
       THEN LET r == CHOOSE x \in row : TRUE
            IN InsertAudit(DeleteWasteById(d, entry_id), "delete",
                           WasteValues(r))
       ELSE d

reset_inventory_db(d) ==
  DeleteAllWaste(InsertResetRows(d, SelectAllWaste(d.waste)))

\* What a handler reports to its caller: every handler ends by falling off
\* its last statement, that is, it returns None and raises nothing.
ReturnedNone == "None"

NoCall == [op |-> "none", entry_id |-> 0, result |-> ReturnedNone]
NoTxn == [owner |-> "none"]

\* A button of the page: its label, and the entry id for a row's Delete.
Button(label, id) == [button |-> label, id |-> id]
NoClick == Button("none", 0)

\* The page of a session that has opened the app on the empty store: the
\* sidebar's reset button and the form's add button, nothing pending.
FirstPage ==
  [session_state |-> <<>>,
   buttons |-> {Button("reset", 0), Button("add", 0)},
   click |-> NoClick]

Init ==
  /\ db = EmptyDb
  /\ call = NoCall
  /\ txn = NoTxn
  /\ pc = [s \in Sessions |-> "idle"]
  /\ local = [s \in Sessions |-> NoCall]
  /\ ui = [s \in Sessions |-> FirstPage]

\* ------------------------------------------------------ Spec: whole calls
insert_entry ==
  /\ db.seq.waste < MaxEntries
  /\ \E a \in Args :
       /\ db' = insert_entry_db(db, a)
       /\ call' = [op |-> "insert_entry", args |-> a, result |-> ReturnedNone]
  /\ UNCHANGED <<txn, pc, local, ui>>

delete_entry ==
  /\ \E entry_id \in EntryIds :
       /\ db' = delete_entry_db(db, entry_id)
       /\ call' = [op |-> "delete_entry", entry_id |-> entry_id,
                   result |-> ReturnedNone]
  /\ UNCHANGED <<txn, pc, local, ui>>

reset_inventory ==
  /\ db' = reset_inventory_db(db)
  /\ call' = [op |-> "reset_inventory", result |-> ReturnedNone]
  /\ UNCHANGED <<txn, pc, local, ui>>

Next == insert_entry \/ delete_entry \/ reset_inventory

Spec == Init /\ [][Next]_vars

\* ------------------------------------- SpecCrash: statement by statement
\* A session is one script run with its own connection (get_conn()).  pc[s]
\* is the line of the statement the session executes next; local[s] holds
\* the handler's local variables.  txn is the open write transaction: the
\* sqlite3 module opens one implicitly before INSERT/DELETE, its effects
\* live in txn.image until conn.commit() and only one connection can hold
\* it at a time.

Running == "running"
Interrupted == "interrupted"

\* The database as statements of session s see it.
View(s) == IF txn.owner = s THEN txn.image ELSE db

\* The write lock is free for s.
CanWrite(s) == txn.owner \in {"none", s}

\* conn.commit()
Commit(s) ==
  IF txn.owner = s
    THEN db' = txn.image /\ txn' = NoTxn
    ELSE UNCHANGED <<db, txn>>

\* conn.close() and return
Return(s) ==
  /\ pc' = [pc EXCEPT ![s] = "idle"]
  /\ local' = [local EXCEPT ![s] = NoCall]

Goto(s, line) == pc' = [pc EXCEPT ![s] = line]

\* Variant: the audit row is written first.
insert_l73_audit(s, a) ==
  /\ pc[s] = "idle"
  /\ db.seq.waste < MaxEntries
  /\ CanWrite(s)
  /\ txn' = [owner |-> s, image |-> InsertAudit(View(s), "insert", a)]
  /\ local' = [local EXCEPT ![s] = [op |-> "insert_entry", args |-> a,
                                    result |-> Running]]
  /\ Goto(s, "l75")
  /\ UNCHANGED <<db, call, ui>>

\* insert_entry, lines 71-74
insert_l73(s, a) ==
  /\ pc[s] = "idle"
  /\ db.seq.waste < MaxEntries
  /\ CanWrite(s)
  /\ txn' = [owner |-> s, image |-> InsertWaste(View(s), a)]
  /\ local' = [local EXCEPT ![s] = [op |-> "insert_entry", args |-> a,
                                    result |-> Running]]
  /\ Goto(s, "l75")
  /\ UNCHANGED <<db, call, ui>>

\* line 75
insert_l75(s) ==
  /\ pc[s] = "l75"
  /\ Commit(s)
  /\ Goto(s, "l77")
  /\ UNCHANGED <<call, local, ui>>

\* lines 77-78
insert_l77(s) ==
  /\ pc[s] = "l77"
  /\ CanWrite(s)
  /\ txn' = [owner |-> s,
             image |-> InsertAudit(View(s), "insert", local[s].args)]
  /\ Goto(s, "l79")
  /\ UNCHANGED <<db, call, local, ui>>

\* lines 79-80
insert_l79(s) ==
  /\ pc[s] = "l79"
  /\ Commit(s)
  /\ Return(s)
  /\ UNCHANGED <<call, ui>>

\* delete_entry, lines 83-88 (and 94 when no row was fetched)
delete_l86(s, entry_id) ==
  /\ pc[s] = "idle"
  /\ LET row == SelectWasteById(View(s), entry_id)
     IN IF row # {}
          THEN /\ local' = [local EXCEPT ![s] =
                              [op |-> "delete_entry", entry_id |-> entry_id,
                               row |-> row, result |-> Running]]
               /\ Goto(s, "l90")
          ELSE /\ local' = [local EXCEPT ![s] = NoCall]
               /\ UNCHANGED pc
  /\ UNCHANGED <<db, call, txn, ui>>

\* lines 89-90
delete_l90(s) ==
  /\ pc[s] = "l90"
  /\ CanWrite(s)
  /\ txn' = [owner |-> s,
             image |-> DeleteWasteById(View(s), local[s].entry_id)]
  /\ Goto(s, "l91")
  /\ UNCHANGED <<db, call, local, ui>>

\* lines 91-92
delete_l91(s) ==
  /\ pc[s] = "l91"
  /\ CanWrite(s)
  /\ LET r == CHOOSE x \in local[s].row : TRUE
     IN txn' = [owner |-> s,
                image |-> InsertAudit(View(s), "delete", WasteValues(r))]
  /\ Goto(s, "l93")
  /\ UNCHANGED <<db, call, local, ui>>

\* lines 93-94
delete_l93(s) ==
  /\ pc[s] = "l93"
  /\ Commit(s)
  /\ Return(s)
  /\ UNCHANGED <<call, ui>>

\* reset_inventory, lines 97-103
reset_l100(s) ==
  /\ pc[s] = "idle"
  /\ LET rows == SelectAllWaste(View(s).waste)
     IN /\ local' = [local EXCEPT ![s] =
                       [op |-> "reset_inventory", rows |-> rows,
                        result |-> Running]]
        /\ Goto(s, IF rows = <<>> THEN "l107" ELSE "l104")
  /\ UNCHANGED <<db, call, txn, ui>>

\* Variant: a commit inside the loop.
reset_l104_commit(s) ==
  /\ pc[s] = "l104"
  /\ CanWrite(s)
  /\ db' = InsertAudit(View(s), "reset", Head(local[s].rows))
  /\ txn' = NoTxn
  /\ local' = [local EXCEPT ![s].rows = Tail(@)]
  /\ Goto(s, IF Tail(local[s].rows) = <<>> THEN "l107" ELSE "l104")
  /\ UNCHANGED <<call, ui>>

\* lines 103-105, one iteration of the loop
reset_l104(s) ==
  /\ pc[s] = "l104"
  /\ CanWrite(s)
  /\ txn' = [owner |-> s,
             image |-> InsertAudit(View(s), "reset", Head(local[s].rows))]
  /\ local' = [local EXCEPT ![s].rows = Tail(@)]
  /\ Goto(s, IF Tail(local[s].rows) = <<>> THEN "l107" ELSE "l104")
  /\ UNCHANGED <<db, call, ui>>

\* line 107
reset_l107(s) ==
  /\ pc[s] = "l107"
  /\ CanWrite(s)
  /\ txn' = [owner |-> s, image |-> DeleteAllWaste(View(s))]
  /\ Goto(s, "l108")
  /\ UNCHANGED <<db, call, local, ui>>

\* lines 108-109
reset_l108(s) ==
  /\ pc[s] = "l108"
  /\ Commit(s)
  /\ Return(s)
  /\ UNCHANGED <<call, ui>>

\* The hosting process dies (or the statement about to run raises and the
\* script run is abandoned): every running handler stops where it is, and
\* sqlite rolls the uncommitted transaction back.
Crash ==
  /\ \E s \in Sessions : pc[s] # "idle"
  /\ txn' = NoTxn
  /\ pc' = [s \in Sessions |-> "idle"]
  /\ local' = [s \in Sessions |->
                IF pc[s] # "idle"
                  THEN [op |-> local[s].op, at |-> pc[s],
                        result |-> Interrupted]
                  ELSE NoCall]
  /\ UNCHANGED <<db, call, ui>>

\* One writer at a time: a handler starts only when no other is running.
SingleWriter == \A t \in Sessions : pc[t] = "idle"

NextCrash ==
  \/ \E s \in Sessions, a \in ScenarioArgs : SingleWriter /\ insert_l73(s, a)
  \/ \E s \in Sessions : insert_l75(s)
  \/ \E s \in Sessions : insert_l77(s)
  \/ \E s \in Sessions : insert_l79(s)
  \/ \E s \in Sessions, entry_id \in EntryIds :
        SingleWriter /\ delete_l86(s, entry_id)
  \/ \E s \in Sessions : delete_l90(s)
  \/ \E s \in Sessions : delete_l91(s)
  \/ \E s \in Sessions : delete_l93(s)
  \/ \E s \in Sessions : SingleWriter /\ reset_l100(s)
  \/ \E s \in Sessions : reset_l104(s)
  \/ \E s \in Sessions : reset_l107(s)
  \/ \E s \in Sessions : reset_l108(s)
  \/ Crash

SpecCrash == Init /\ [][NextCrash]_vars

\* ------------------------------------------------------------- counting
AllValues == Args

\* Rows of the inventory with value columns v.
WasteCount(d, v) == Cardinality({r \in d.waste : WasteValues(r) = v})

\* Audit rows of the given kinds with value columns v.
AuditCount(d, events, v) ==
  Cardinality({x \in d.audit : x.event \in events /\ AuditValues(x) = v})

NewWaste == db'.waste \ db.waste
NewAudit == db'.audit \ db.audit
Present(d, entry_id) == \E r \in d.waste : r.id = entry_id
Quiescent == \A s \in Sessions : pc[s] = "idle"

\* --------------------------------------------------------------- claims

\* C1: the audit log is append-only.  No step removes or alters an audit
\* record (every record of the log is, unchanged, in the log after the
\* step) and the number of records never decreases.
AuditAppendOnly ==
  [][/\ db.audit \subseteq db'.audit
     /\ Cardinality(db'.audit) >= Cardinality(db.audit)]_vars

\* A reset has just run after an add and a delete: the log holds records of
\* all three kinds although the inventory is empty.
AuditAppendOnlyWitness ==
  /\ call.op = "reset_inventory"
  /\ db.waste = {}
  /\ \A e \in {"insert", "delete", "reset"} :
       \E x \in db.audit : x.event = e

\* C2: a call of insert_entry adds exactly one inventory row, holding the
\* arguments, and exactly one audit record, of kind 'insert' and holding the
\* arguments; nothing else changes in either table.
InsertPairing ==
  [][call'.op = "insert_entry" =>
       /\ db.waste \subseteq db'.waste
       /\ db.audit \subseteq db'.audit
       /\ Cardinality(NewWaste) = 1
       /\ \A r \in NewWaste : WasteValues(r) = call'.args
       /\ Cardinality(NewAudit) = 1
       /\ \A x \in NewAudit :
            x.event = "insert" /\ AuditValues(x) = call'.args]_vars

\* An add has just returned with a second entry in the inventory.
InsertPairingWitness ==
  /\ call.op = "insert_entry"
  /\ Cardinality(db.waste) = 2
  /\ \E r \in db.waste : WasteValues(r) = call.args
  /\ \E x \in db.audit : x.event = "insert" /\ AuditValues(x) = call.args

\* C3: delete_entry on a present id removes exactly that row (it is in no
\* month's listing afterwards, the other rows are untouched) and adds exactly
\* one audit record, of kind 'delete', with the removed row's values.
DeletePairing ==
  [][(call'.op = "delete_entry" /\ Present(db, call'.entry_id)) =>
       LET e == CHOOSE r \in db.waste : r.id = call'.entry_id
       IN /\ db'.waste = db.waste \ {e}
          /\ \A date \in Dates : e \notin MonthlyRows(db', YearMonth(date))
          /\ e \in MonthlyRows(db, YearMonth(e.date))
          /\ db.audit \subseteq db'.audit
          /\ Cardinality(NewAudit) = 1
          /\ \A x \in NewAudit :
               x.event = "delete" /\ AuditValues(x) = WasteValues(e)]_vars

\* A delete has just removed one of two entries.
DeletePairingWitness ==
  /\ call.op = "delete_entry"
  /\ ~Present(db, call.entry_id)
  /\ Cardinality(db.waste) = 1
  /\ Cardinality({x \in db.audit : x.event = "delete"}) = 1
  /\ Cardinality({x \in db.audit : x.event = "insert"}) = 2

\* C4: delete_entry on an id that is not in the inventory reports
\* NotFoundError to its caller, adds no audit record and leaves the inventory
\* unchanged.
DeleteAbsentRaises ==
  [][(call'.op = "delete_entry" /\ ~Present(db, call'.entry_id)) =>
       /\ call'.result = "NotFoundError"
       /\ db' = db]_vars

HighWater ==
  /\ \A r \in db.waste : r.id <= db.seq.waste
  /\ \A x \in db.audit : x.id <= db.seq.audit

IdNonReuse ==
  [][/\ HighWater
     /\ HighWater'
     /\ db'.seq.waste >= db.seq.waste
     /\ db'.seq.audit >= db.seq.audit
     /\ \A r \in NewWaste : r.id > db.seq.waste
     /\ \A x \in NewAudit : x.id > db.seq.audit]_vars

\* An add has just run on an inventory that had been emptied: the only
\* row has id 2, id 1 is not given again.
IdNonReuseWitness ==
  /\ call.op = "insert_entry"
  /\ Cardinality(db.waste) = 1
  /\ \A r \in db.waste : r.id = 2

\* C7 (I1): after any completed sequence of calls every inventory row has
\* its own 'insert' audit record: for every value tuple there are at most as
\* many rows as 'insert' records.
EntryHasInsertRecord ==
  \A v \in AllValues : WasteCount(db, v) <= AuditCount(db, {"insert"}, v)

\* Two rows with the same values are present.
EntryHasInsertRecordWitness ==
  \E v \in AllValues : WasteCount(db, v) = 2

\* Every row ever stored with values v: still present, or removed and logged.
StoredCount(d, v) == WasteCount(d, v) + AuditCount(d, {"delete", "reset"}, v)

\* C8: an interrupted insert_entry leaves both the inventory row and its
\* 'insert' record in the file, or neither: once the process has died in
\* insert_entry, the stored rows and the 'insert' records pair up.
AddBothOrNeither ==
  (/\ Quiescent
   /\ \E s \in Sessions :
        local[s].op = "insert_entry" /\ local[s].result = Interrupted)
  => \A v \in AllValues : AuditCount(db, {"insert"}, v) = StoredCount(db, v)

\* C9: wherever insert_entry stops, an 'insert' record is in the file only
\* if its row was stored before: for every value tuple there are at most as
\* many 'insert' records as rows ever stored.
AddFailSafe ==
  \A v \in AllValues : AuditCount(db, {"insert"}, v) <= StoredCount(db, v)

\* insert_entry was interrupted after its first commit: a row is in the file
\* without an 'insert' record.
AddFailSafeWitness ==
  /\ \E s \in Sessions :
       /\ local[s].op = "insert_entry"
       /\ local[s].result = Interrupted
       /\ local[s].at \in {"l77", "l79"}
  /\ \E v \in AllValues : AuditCount(db, {"insert"}, v) < StoredCount(db, v)

\* C10: delete_entry and reset_inventory are atomic in the file.  While one
\* of them runs (an interruption included) every step leaves the file as it
\* is or takes it to the result of the whole handler; and no step of any
\* kind removes rows without adding, in the same step, exactly one
\* 'delete'/'reset' record per removed row with that row's values.
RemovalAtomic ==
  [][/\ \A s \in Sessions :
          /\ (pc[s] # "idle" /\ local[s].op = "delete_entry") =>
               db' \in {db, delete_entry_db(db, local[s].entry_id)}
          /\ (pc[s] # "idle" /\ local[s].op = "reset_inventory") =>
               db' \in {db, reset_inventory_db(db)}
     /\ \A v \in AllValues :
          Cardinality({r \in db.waste \ db'.waste : WasteValues(r) = v})
            = Cardinality({x \in NewAudit :
                             /\ x.event \in {"delete", "reset"}
                             /\ AuditValues(x) = v})]_vars

\* reset_inventory was interrupted after it had written its records and
\* before its commit: both rows are still in the file and no reset record is.
RemovalAtomicWitness ==
  /\ \E s \in Sessions :
       /\ local[s].op = "reset_inventory"
       /\ local[s].result = Interrupted
       /\ local[s].at \in {"l107", "l108"}
  /\ Cardinality(db.waste) = 2
  /\ \A x \in db.audit : x.event # "reset"

\* ------------------------------------------- SpecRaw: unchecked arguments
\* insert_entry is an ordinary function: a caller other than the form can
\* pass it any text and any number.  One well-formed tuple and four tuples
\* with one out-of-domain argument each.
D_2024_13_45 == <<"2","0","2","4","-","1","3","-","4","5">>

RawArgs ==
  {[entry_date |-> D_2024_01_05, business |-> "DAB", stream |-> "ACN",
    quantity |-> 300],
   [entry_date |-> D_2024_01_05, business |-> "XYZ", stream |-> "ACN",
    quantity |-> 300],
   [entry_date |-> D_2024_01_05, business |-> "DAB", stream |-> "H2O",
    quantity |-> 300],
   [entry_date |-> D_2024_01_05, business |-> "DAB", stream |-> "ACN",
    quantity |-> -5],
   [entry_date |-> D_2024_13_45, business |-> "DAB", stream |-> "ACN",
    quantity |-> 300]}

insert_entry_raw ==
  /\ db.seq.waste < MaxEntries
  /\ \E a \in RawArgs :
       /\ db' = insert_entry_db(db, a)
       /\ call' = [op |-> "insert_entry", args |-> a, result |-> ReturnedNone]
  /\ UNCHANGED <<txn, pc, local, ui>>

NextRaw == insert_entry_raw \/ delete_entry \/ reset_inventory

SpecRaw == Init /\ [][NextRaw]_vars

\* A syntactically valid calendar date in ISO text: YYYY-MM-DD with a month
\* 01..12 and a day 01..31.
DigitChars == <<"0", "1", "2", "3", "4", "5", "6", "7", "8", "9">>
IsDigit(c) == \E i \in 1..10 : DigitChars[i] = c
DigitValue(c) == (CHOOSE i \in 1..10 : DigitChars[i] = c) - 1
TwoDigits(t, i) == 10 * DigitValue(t[i]) + DigitValue(t[i + 1])

IsCalendarDate(t) ==
  /\ Len(t) = 10
  /\ t[5] = "-" /\ t[8] = "-"
  /\ \A i \in {1, 2, 3, 4, 6, 7, 9, 10} : IsDigit(t[i])
  /\ TwoDigits(t, 6) \in 1..12
  /\ TwoDigits(t, 9) \in 1..31

InDomain(a) ==
  /\ a.business \in BUSINESSES
  /\ a.stream \in STREAMS
  /\ a.quantity >= 0
  /\ IsCalendarDate(a.entry_date)

\* C11: insert_entry called with a business or stream outside the
\* configured sets, a negative quantity or a malformed date reports
\* ValidationError and changes neither table.
AddValidates ==
  [][(call'.op = "insert_entry" /\ ~InDomain(call'.args)) =>
       /\ call'.result = "ValidationError"
       /\ db' = db]_vars

\* ------------------------------------------------- SpecQuery: the reads
\* Entries of two months and two years, and the two read helpers the page
\* calls on every run.
D_2025_01_05 == <<"2","0","2","5","-","0","1","-","0","5">>
QueryDates == Dates \cup {D_2025_01_05}

QueryArgs == {[entry_date |-> d, business |-> "DAB", stream |-> "ACN",
               quantity |-> q] : d \in QueryDates, q \in Quantities}

\* datetime.today().strftime("%Y-%m") / datetime.today().year on the days
\* the page is opened.
YearMonths == {YearMonth(d) : d \in QueryDates}
Years == {2024, 2025, 2026}

\* Text comparison (BINARY collation): '-' sorts before every digit.
CharCode(c) == IF c = "-" THEN 45 ELSE 48 + DigitValue(c)

RECURSIVE TextLess(_, _)
TextLess(a, b) ==
  IF b = <<>> THEN FALSE
  ELSE IF a = <<>> THEN TRUE
  ELSE IF CharCode(Head(a)) # CharCode(Head(b))
         THEN CharCode(Head(a)) < CharCode(Head(b))
  ELSE TextLess(Tail(a), Tail(b))

\* All orders in which the rows of a set can be listed.
RECURSIVE Orders(_)
Orders(rows) ==
  IF rows = {} THEN {<<>>}
  ELSE UNION {{<<r>> \o t : t \in Orders(rows \ {r})} : r \in rows}

\* ORDER BY date ASC: no row is listed after a row with a greater date.
\* The query names no second sort key, so rows with equal dates come in
\* whatever order the engine produces.
OrderByDateAsc(rows) ==
  {t \in Orders(rows) :
     \A i, j \in 1..Len(t) : i < j => ~TextLess(t[j].date, t[i].date)}

\* get_monthly_entries(year_month): the lists fetchall() can return.
get_monthly_entries_db(d, year_month) ==
  OrderByDateAsc(MonthlyRows(d, year_month))

\* str(year)
RECURSIVE Str(_)
Str(n) ==
  IF n < 10 THEN <<DigitChars[n + 1]>>
  ELSE Str(n \div 10) \o <<DigitChars[(n % 10) + 1]>>

RECURSIVE SumQuantity(_)
SumQuantity(rows) ==
  IF rows = {} THEN 0
  ELSE LET r == CHOOSE x \in rows : TRUE
       IN r.quantity + SumQuantity(rows \ {r})

\* SELECT SUM(quantity) ...: <<>> stands for NULL (no row matched).
SqlSum(rows) == IF rows = {} THEN <<>> ELSE <<SumQuantity(rows)>>

\* Python truth value of the fetched sum: None and 0.0 are false.
Truthy(x) == x # <<>> /\ x[1] # 0

\* Variant: the WHERE clause is missing.
get_annual_total_db_nowhere(d, year) ==
  LET x == SqlSum(d.waste)
  IN IF Truthy(x) THEN x[1] ELSE 0

\* get_annual_total(year)
get_annual_total_db(d, year) ==
  LET x == SqlSum({r \in d.waste : SubSeq(r.date, 1, 4) = Str(year)})
  IN IF Truthy(x) THEN x[1] ELSE 0

\* Limits passed to get_all_audit: below, at and above the size of the log.
Limits == 0..(2 * MaxEntries + 1)

\* Variant: ORDER BY id ASC.
RECURSIVE get_all_audit_db_asc(_, _)
get_all_audit_db_asc(d, limit) ==
  IF limit = 0 \/ d.audit = {} THEN <<>>
  ELSE LET x == CHOOSE y \in d.audit : \A z \in d.audit : y.id <= z.id
       IN <<x>> \o get_all_audit_db_asc([d EXCEPT !.audit = @ \ {x}],
                                        limit - 1)

\* get_all_audit(limit): SELECT ... FROM audit ORDER BY id DESC LIMIT ?
\* (a negative LIMIT means no limit).
RECURSIVE get_all_audit_db(_, _)
get_all_audit_db(d, limit) ==
  IF limit = 0 \/ d.audit = {} THEN <<>>
  ELSE LET x == CHOOSE y \in d.audit : \A z \in d.audit : y.id >= z.id
       IN <<x>> \o get_all_audit_db([d EXCEPT !.audit = @ \ {x}], limit - 1)

insert_entry_dated ==
  /\ db.seq.waste < MaxEntries
  /\ \E a \in QueryArgs :
       /\ db' = insert_entry_db(db, a)
       /\ call' = [op |-> "insert_entry", args |-> a, result |-> ReturnedNone]
  /\ UNCHANGED <<txn, pc, local, ui>>

get_monthly_entries ==
  /\ \E year_month \in YearMonths :
       \E rows \in get_monthly_entries_db(db, year_month) :
         call' = [op |-> "get_monthly_entries", year_month |-> year_month,
                  result |-> rows]
  /\ UNCHANGED <<db, txn, pc, local, ui>>

get_annual_total ==
  /\ \E year \in Years :
       call' = [op |-> "get_annual_total", year |-> year,
                result |-> get_annual_total_db(db, year)]
  /\ UNCHANGED <<db, txn, pc, local, ui>>

get_all_audit ==
  /\ \E limit \in Limits :
       call' = [op |-> "get_all_audit", limit |-> limit,
                result |-> get_all_audit_db(db, limit)]
  /\ UNCHANGED <<db, txn, pc, local, ui>>

NextQuery ==
  \/ get_all_audit
  \/ insert_entry_dated
  \/ delete_entry
  \/ reset_inventory
  \/ get_monthly_entries
  \/ get_annual_total

SpecQuery == Init /\ [][NextQuery]_vars

\* The elements of a list.
Range(t) == {t[i] : i \in 1..Len(t)}

\* The year and month a date text denotes.
DateYear(t) ==
  1000 * DigitValue(t[1]) + 100 * DigitValue(t[2]) + TwoDigits(t, 3)
DateMonth(t) == TwoDigits(t, 6)

AnnualTotalIsSum ==
  call.op = "get_annual_total" =>
    call.result = SumQuantity({r \in db.waste : DateYear(r.date) = call.year})

\* The total of 2024 is asked for while the inventory holds an entry of 2024
\* with a quantity and an entry of 2025 with a quantity.
AnnualTotalIsSumWitness ==
  /\ call.op = "get_annual_total"
  /\ call.year = 2024
  /\ call.result = 300
  /\ \E r \in db.waste : DateYear(r.date) = 2025 /\ r.quantity = 300

\* The total of a year is asked for whose only entry has quantity 0, after
\* another entry was deleted.
AnnualTotalZeroWitness ==
  /\ call.op = "get_annual_total"
  /\ call.result = 0
  /\ \E r \in db.waste : DateYear(r.date) = call.year /\ r.quantity = 0
  /\ \E x \in db.audit : x.event \in {"delete", "reset"}

\* ------------------------------------- SpecCapacity: usage and warning
\* The capacity computation of the page, as a function of the monthly total
\* and the capacity.  Numbers are exact: a ratio is a pair <<n, d>>, d > 0.
MAX_MASS_ON_SITE == 1000

RatLE(a, b) == a[1] * b[2] <= b[1] * a[2]
RatEq(a, b) == a[1] * b[2] = b[1] * a[2]
\* min(a, b)
RatMin(a, b) == IF RatLE(a, b) THEN a ELSE b

\* min(monthly_total / MAX_MASS_ON_SITE * 100 if MAX_MASS_ON_SITE > 0 else 0,
\*     100)
usage_percent(monthly_total, capacity) ==
  RatMin(IF capacity > 0 THEN <<monthly_total * 100, capacity>> ELSE <<0, 1>>,
         <<100, 1>>)

\* Variant: strictly above 80.
capacity_warning_above(usage) == ~RatLE(usage, <<80, 1>>)

\* if usage_percent >= 80: st.warning(...)
capacity_warning(usage) == RatLE(<<80, 1>>, usage)

MonthlyTotals == {0, 1, 399, 400, 401, 500, 799, 800, 801, 1000, 1200, 2000}
Capacities == {-1000, 0, 1, 500, MAX_MASS_ON_SITE}

InitCapacity ==
  /\ db = EmptyDb
  /\ \E t \in MonthlyTotals, c \in Capacities :
       call = [op |-> "usage_percent", monthly_total |-> t, capacity |-> c,
               result |-> <<>>]
  /\ txn = NoTxn
  /\ pc = [s \in Sessions |-> "idle"]
  /\ local = [s \in Sessions |-> NoCall]
  /\ ui = [s \in Sessions |-> FirstPage]

overview ==
  /\ call.op = "usage_percent"
  /\ call.result = <<>>
  /\ LET usage == usage_percent(call.monthly_total, call.capacity)
     IN call' = [call EXCEPT !.result =
                   <<[usage_percent |-> usage,
                      warning |-> capacity_warning(usage)]>>]
  /\ UNCHANGED <<db, txn, pc, local, ui>>

NextCapacity == overview

SpecCapacity == InitCapacity /\ [][NextCapacity]_vars

\* C14: for a monthly total >= 0 the usage fraction (the percentage over
\* 100) is min(total / capacity, 1) when capacity > 0 and 0 when
\* capacity <= 0, lies in [0, 1], and the warning is shown exactly when the
\* fraction is at least 0.8: shown at 800 of 1000, shown and clamped at 1200
\* of 1000, never shown for capacity 0.
UsageFractionAndWarning ==
  (call.op = "usage_percent" /\ call.result # <<>> /\ call.monthly_total >= 0)
  =>
    LET t == call.monthly_total
        c == call.capacity
        u == call.result[1].usage_percent
        w == call.result[1].warning
        fraction == <<u[1], u[2] * 100>>
    IN /\ c > 0 => RatEq(fraction, RatMin(<<t, c>>, <<1, 1>>))
       /\ c <= 0 => RatEq(fraction, <<0, 1>>)
       /\ RatLE(<<0, 1>>, fraction) /\ RatLE(fraction, <<1, 1>>)
       /\ w <=> RatLE(<<4, 5>>, fraction)
       /\ (t = 800 /\ c = 1000) => (w /\ RatEq(fraction, <<4, 5>>))
       /\ (t = 1200 /\ c = 1000) => (w /\ RatEq(fraction, <<1, 1>>))
       /\ c = 0 => ~w

\* 800 kg of 1000 kg has been evaluated: 0.8, with the warning.
UsageFractionAndWarningWitness ==
  /\ call.op = "usage_percent"
  /\ call.monthly_total = 800
  /\ call.capacity = MAX_MASS_ON_SITE
  /\ call.result # <<>>
  /\ call.result[1].warning
  /\ RatEq(call.result[1].usage_percent, <<80, 1>>)

Min(a, b) == IF a <= b THEN a ELSE b

\* C15: get_all_audit(limit), limit >= 0, on a log of M records returns
\* exactly the min(limit, M) records with the highest ids, by strictly
\* descending id (nothing for limit 0); and right after a delete of a
\* present entry, or a reset of a one-entry inventory, get_all_audit(1) is
\* the record that call wrote.
AuditQueryNewestFirst ==
  [][/\ call'.op = "get_all_audit" =>
          LET t == call'.result
          IN /\ Len(t) = Min(call'.limit, Cardinality(db'.audit))
             /\ Range(t) \subseteq db'.audit
             /\ \A i, j \in 1..Len(t) : i < j => t[i].id > t[j].id
             /\ \A x \in db'.audit \ Range(t) :
                  \A y \in Range(t) : x.id < y.id
             /\ call'.limit = 0 => t = <<>>
     /\ (call'.op = "delete_entry" /\ Present(db, call'.entry_id)) =>
          LET e == CHOOSE r \in db.waste : r.id = call'.entry_id
              t == get_all_audit_db(db', 1)
          IN /\ Len(t) = 1
             /\ t[1] \in NewAudit
             /\ t[1].event = "delete"
             /\ AuditValues(t[1]) = WasteValues(e)
     /\ (call'.op = "reset_inventory" /\ Cardinality(db.waste) = 1) =>
          LET e == CHOOSE r \in db.waste : TRUE
              t == get_all_audit_db(db', 1)
          IN /\ Len(t) = 1
             /\ t[1] \in NewAudit
             /\ t[1].event = "reset"
             /\ AuditValues(t[1]) = WasteValues(e)]_vars

\* The newest record is asked for right after a delete, with older records
\* in the log.
AuditQueryNewestFirstWitness ==
  /\ call.op = "get_all_audit"
  /\ call.limit = 1
  /\ Cardinality(db.audit) >= 3
  /\ Len(call.result) = 1
  /\ call.result[1].event = "delete"
  /\ call.result[1].id = db.seq.audit

\* ------------------------------------------- SpecRestart: init_db again
\* init_db runs at the top of every script run, hence after every restart of
\* the process, against whatever file is there.  A file without tables is
\* the empty image <<>>.
NewFile == <<>>

\* Variant: DROP TABLE IF EXISTS before CREATE TABLE.
CreateTableIfNotExists_drop(d, table) ==
  [x \in DOMAIN d \cup {table, "seq"} |->
     IF x = table THEN {}
     ELSE IF x = "seq"
       THEN [y \in (IF "seq" \in DOMAIN d THEN DOMAIN d.seq ELSE {})
                     \cup {table} |->
               IF y = table THEN 0 ELSE d.seq[y]]
     ELSE d[x]]

\* CREATE TABLE IF NOT EXISTS table (id INTEGER PRIMARY KEY AUTOINCREMENT,
\* ...): nothing when the table is there, else an empty table whose
\* sqlite_sequence counter starts at 0.
CreateTableIfNotExists(d, table) ==
  IF table \in DOMAIN d THEN d
  ELSE [x \in DOMAIN d \cup {table, "seq"} |->
          IF x = table THEN {}
          ELSE IF x = "seq"
            THEN [y \in (IF "seq" \in DOMAIN d THEN DOMAIN d.seq ELSE {})
                          \cup {table} |->
                    IF y = table THEN 0 ELSE d.seq[y]]
          ELSE d[x]]

init_db_db(d) ==
  CreateTableIfNotExists(CreateTableIfNotExists(d, "waste"), "audit")

init_db ==
  /\ db' = init_db_db(db)
  /\ call' = [op |-> "init_db", result |-> ReturnedNone]
  /\ UNCHANGED <<txn, pc, local, ui>>

NextRestart == init_db \/ insert_entry \/ delete_entry \/ reset_inventory

SpecRestart == Init /\ [][NextRestart]_vars

\* C16: init_db on an existing store changes neither table and neither id
\* counter (and on a new file yields the empty store), so that, with
\* restarts anywhere between the calls, rows and audit records stay and
\* every new id is above every id given before.
RestartKeepsStore ==
  [][/\ call'.op = "init_db" => db' = db
     /\ init_db_db(NewFile) = EmptyDb
     /\ db.audit \subseteq db'.audit
     /\ db'.seq.waste >= db.seq.waste
     /\ db'.seq.audit >= db.seq.audit
     /\ \A r \in db'.waste : r \notin db.waste => r.id > db.seq.waste
     /\ \A x \in db'.audit : x \notin db.audit => x.id > db.seq.audit
     /\ \A r \in db'.waste : r.id <= db'.seq.waste]_vars

\* init_db has just run on a store that holds an entry, three audit records
\* and a freed id.
RestartKeepsStoreWitness ==
  /\ call.op = "init_db"
  /\ Cardinality(db.waste) = 1
  /\ Cardinality(db.audit) = 3
  /\ db.seq.waste = 2
  /\ \E x \in db.audit : x.event = "delete"

\* ---------------------------------------------------- SpecUI: the page
\* One step is one click in one browser session together with the script
\* run it causes (and the rerun that st.experimental_rerun() starts).  In
\* the run caused by a click, st.button(...) is True for the clicked button
\* if the run reaches it, and False for every other button; a button can be
\* clicked when the page as last rendered shows it.  The download button
\* and the charts only read and are left out.

\* datetime.today().strftime("%Y-%m")
current_month == YearMonth(D_2024_01_05)

\* entries = get_monthly_entries(current_month), as a set of rows
Entries(d) == MonthlyRows(d, current_month)

\* The buttons a run renders that starts from click and reaches the end of
\* the script, on store d with session state ss.
Rendered(d, ss, click) ==
  {Button("reset", 0), Button("add", 0)}
    \cup (IF click = Button("reset", 0)
            THEN {Button("confirm_reset", 0)} ELSE {})
    \cup (IF Entries(d) # {}
            THEN {Button("delete", r.id) : r \in Entries(d)}
                   \cup (IF ss # <<>>
                           THEN {Button("confirm_delete", 0),
                                 Button("cancel", 0)}
                           ELSE {})
            ELSE {})

\* The page after the run: store d, session state ss, started by click,
\* having called the handler recorded in c.
Page(s, d, ss, click, shown, c) ==
  /\ db' = d
  /\ ui' = [ui EXCEPT ![s] = [session_state |-> ss,
                              buttons |-> Rendered(d, ss, shown),
                              click |-> click]]
  /\ call' = c

\* lines 146-148: if st.button("Reset inventory ..."):
\*                    if st.button("CONFIRM reset inventory ..."):
\* reset_inventory() is reached when both buttons are True in one run.
ResetConfirmed(click) ==
  IF click = Button("reset", 0)
    THEN click = Button("confirm_reset", 0)
    ELSE FALSE

\* The whole script, lines 138-339, run in session s because of click, with
\* the form holding a.
Script(s, click, a) ==
  /\ click \in ui[s].buttons \cup {NoClick}
  /\ LET ss == ui[s].session_state
         d0 == init_db_db(db)
         d1 == IF ResetConfirmed(click) THEN reset_inventory_db(d0) ELSE d0
         c1 == IF ResetConfirmed(click)
                 THEN [op |-> "reset_inventory", result |-> ReturnedNone]
                 ELSE NoCall
     IN IF click = Button("add", 0)
          THEN \* lines 180-183
               /\ db.seq.waste < MaxEntries
               /\ Page(s, insert_entry_db(d1, a), ss, click, NoClick,
                       [op |-> "insert_entry", args |-> a,
                        result |-> ReturnedNone])
        ELSE IF Entries(d1) # {}
                  /\ \E r \in Entries(d1) : click = Button("delete", r.id)
          THEN \* lines 299-302
               LET r == CHOOSE x \in Entries(d1) :
                          click = Button("delete", x.id)
               IN Page(s, d1, <<r>>, click, NoClick, c1)
        ELSE IF Entries(d1) # {} /\ ss # <<>>
                  /\ click = Button("confirm_delete", 0)
          THEN \* lines 308-312
               Page(s, delete_entry_db(d1, ss[1].id), <<>>, click, NoClick,
                    [op |-> "delete_entry", entry_id |-> ss[1].id,
                     result |-> ReturnedNone])
        ELSE IF Entries(d1) # {} /\ ss # <<>>
                  /\ click = Button("cancel", 0)
          THEN \* lines 313-316
               Page(s, d1, <<>>, click, NoClick, c1)
        ELSE Page(s, d1, ss, click, click, c1)
  /\ UNCHANGED <<txn, pc, local>>

ui_rerun(s) == \E a \in ScenarioArgs : Script(s, NoClick, a)
ui_reset(s) == \E a \in ScenarioArgs : Script(s, Button("reset", 0), a)
ui_confirm_reset(s) ==
  \E a \in ScenarioArgs : Script(s, Button("confirm_reset", 0), a)
ui_add(s, a) == Script(s, Button("add", 0), a)
ui_delete(s, id) == \E a \in ScenarioArgs : Script(s, Button("delete", id), a)
ui_confirm_delete(s) ==
  \E a \in ScenarioArgs : Script(s, Button("confirm_delete", 0), a)
ui_cancel(s) == \E a \in ScenarioArgs : Script(s, Button("cancel", 0), a)

NextUI ==
  \E s \in Sessions :
    \/ ui_rerun(s)
    \/ ui_reset(s)
    \/ ui_confirm_reset(s)
    \/ \E a \in ScenarioArgs : ui_add(s, a)
    \/ \E id \in EntryIds : ui_delete(s, id)
    \/ ui_confirm_delete(s)
    \/ ui_cancel(s)

SpecUI == Init /\ [][NextUI]_vars

\* Session s made the step.
Acted(s) == ui'[s] # ui[s]

\* C17: when the user clicks 'Reset inventory' and, on the page that run
\* renders, 'CONFIRM reset inventory', the run of the second click calls
\* reset_inventory (the inventory is emptied and logged); and
\* reset_inventory is called in no other run.
ResetAfterConfirm ==
  [][/\ \A s \in Sessions :
          (/\ ui[s].click = Button("reset", 0)
           /\ ui'[s].click = Button("confirm_reset", 0))
          => /\ call'.op = "reset_inventory"
             /\ db' = reset_inventory_db(db)
     /\ call'.op = "reset_inventory" =>
          \E s \in Sessions :
            /\ ui[s].click = Button("reset", 0)
            /\ ui'[s].click = Button("confirm_reset", 0)]_vars

\* C18: delete_entry is called only by the run of a 'Confirm delete' click
\* and only with the id the session's last row 'Delete' click recorded; a
\* row 'Delete' click or a 'Cancel' click changes neither table; the pending
\* delete is set only by a row 'Delete' click, to that row; and after
\* 'Confirm delete' or 'Cancel' the session has no pending delete.
DeleteNeedsConfirm ==
  [][/\ call'.op = "delete_entry" =>
          \E s \in Sessions :
            /\ Acted(s)
            /\ ui'[s].click = Button("confirm_delete", 0)
            /\ ui[s].session_state # <<>>
            /\ call'.entry_id = ui[s].session_state[1].id
     /\ \A s \in Sessions : Acted(s) =>
          /\ ui'[s].click.button \in {"delete", "cancel"} => db' = db
          /\ (/\ ui'[s].session_state # ui[s].session_state
              /\ ui'[s].session_state # <<>>)
             => /\ ui'[s].click.button = "delete"
                /\ ui'[s].session_state[1].id = ui'[s].click.id
                /\ ui'[s].session_state[1] \in db.waste
          /\ ui'[s].click.button \in {"confirm_delete", "cancel"} =>
               ui'[s].session_state = <<>>]_vars

\* ------------------------------------------- SpecConc: two sessions at once
\* The statements of SpecCrash, run by two sessions whose handlers overlap:
\* every browser session runs the script in its own thread on its own
\* connection to the same file.  A statement that writes waits while the
\* other connection holds the write transaction.
NextConc ==
  \/ \E s \in Sessions, a \in ScenarioArgs : insert_l73(s, a)
  \/ \E s \in Sessions : insert_l75(s)
  \/ \E s \in Sessions : insert_l77(s)
  \/ \E s \in Sessions : insert_l79(s)
  \/ \E s \in Sessions, entry_id \in EntryIds : delete_l86(s, entry_id)
  \/ \E s \in Sessions : delete_l90(s)
  \/ \E s \in Sessions : delete_l91(s)
  \/ \E s \in Sessions : delete_l93(s)
  \/ \E s \in Sessions : reset_l100(s)
  \/ \E s \in Sessions : reset_l104(s)
  \/ \E s \in Sessions : reset_l107(s)
  \/ \E s \in Sessions : reset_l108(s)

SpecConc == Init /\ [][NextConc]_vars

\* Audit records of removals, of any values.
RemovalRecords(d) == {x \in d.audit : x.event \in {"delete", "reset"}}

\* C19: no removal is logged twice.  Waste ids are handed out as 1, 2, ...,
\* so db.seq.waste minus the number of rows present is the number of entries
\* removed so far; there are never more 'delete'/'reset' records than that,
\* also when handlers of two sessions interleave.
NoDoubleLogging ==
  Cardinality(RemovalRecords(db)) <= db.seq.waste - Cardinality(db.waste)

\* C20: every row that reset_inventory removes has a 'reset' record written
\* by the same call: the commit of a reset removes, for every value tuple,
\* as many rows as it adds 'reset' records, also when another session's
\* insert_entry commits between the reset's SELECT and its DELETE.
ResetLogsAllItRemoves ==
  [][\A s \in Sessions :
       (pc[s] = "l108" /\ pc'[s] = "idle") =>
         \A v \in AllValues :
           Cardinality({r \in db.waste \ db'.waste : WasteValues(r) = v})
             = Cardinality({x \in NewAudit :
                              x.event = "reset" /\ AuditValues(x) = v})]_vars

====
